---- MODULE Spec2Model ----
(***************************************************************************)
(* Model of generate_data.py: the synthetic survey-response generator.     *)
(*                                                                         *)
(* Real numbers are exact decimals in units of 1/Scale (the float literals *)
(* of the script have at most two decimals and the products of the latent  *)
(* formulas at most four).  Binary floating-point representation error is  *)
(* not modelled.  The standard normal deviates come from the process-wide  *)
(* generator, which the script never seeds: the stream is fixed, but       *)
(* arbitrary, at process start (zs), and every draw consumes one deviate.  *)
(***************************************************************************)
EXTENDS Integers, Sequences, FiniteSets, TLC

VARIABLES
    NUM_RESPONDENTS, \* configured respondent count (line 7)
    zs,              \* the generator's stream of standard normal deviates
    drawn,           \* deviates consumed so far in this run
    header,          \* line 23
    data,            \* line 27
    row,             \* line 42
    i,               \* completed iterations of the respondent loop (line 41)
    ci,              \* position in constructs.items() (lines 24, 70)
    ii,              \* position in items (line 72)
    factors,         \* lines 59-67
    val,             \* lines 74-78
    raw,             \* history: val as computed on line 74, before rounding
    fh,              \* the file object of line 84: unopened, open, closed
    disk,            \* lines of the output file on disk
    exc,             \* an exception is propagating
    opens,           \* history: number of successful opens in this run
    stdout,          \* lines printed by this run
    run,             \* ordinal of the current run of the script
    prevOk,          \* history: an earlier run completed successfully
    prevDisk,        \* history: the file the last successful earlier run left
    pc

vars == <<NUM_RESPONDENTS, zs, drawn, header, data, row, i, ci, ii, factors,
          val, raw, fh, disk, exc, opens, stdout, run, prevOk, prevDisk, pc>>

genVars == <<header, data, row, i, ci, ii, factors, val, raw, drawn>>
ioVars  == <<fh, disk, exc, opens, stdout>>
envVars == <<NUM_RESPONDENTS, zs, run, prevOk, prevDisk>>

---------------------------------------------------------------------------
(* Bounds of the model *)
MaxRespondents == 2
Period == 2
ZFar == 8
MaxRuns == 2
ProbeSpan == 30

(* Decimal resolution: one unit is 1/Scale *)
Scale == 100 * 100

(* Program constants *)
SCALE_MIN == 1
SCALE_MAX == 5
mu_CSVC == 35000
mu_GV == 40000
mu_CT == 38000
mu_NV == 32000
mu_HP == 30000
sd_CSVC == 8000
sd_GV == 7000
sd_CT == 7500
sd_NV == 9000
sd_HP == 8500
sd_HL == 5000
sd_TT == 4000
sd_item == 6000
MsgRows == 150
MsgCols == 28

constructs ==
    << [code |-> "CSVC", items |-> <<"CSVC1", "CSVC2", "CSVC3", "CSVC4">>],
       [code |-> "GV",   items |-> <<"GV1", "GV2", "GV3", "GV4">>],
       [code |-> "CT",   items |-> <<"CT1", "CT2", "CT3", "CT4">>],
       [code |-> "NV",   items |-> <<"NV1", "NV2", "NV3", "NV4">>],
       [code |-> "HP",   items |-> <<"HP1", "HP2", "HP3", "HP4">>],
       [code |-> "HL",   items |-> <<"HL1", "HL2", "HL3", "HL4">>],
       [code |-> "TT",   items |-> <<"TT1", "TT2", "TT3", "TT4">>] >>

Codes == { constructs[k].code : k \in 1..Len(constructs) }

(* Deviates the stream may hold: both far tails and the centre *)
ZVals == {-ZFar, 0, ZFar}

ProbeVals == { (Scale \div 4) * k : k \in -ProbeSpan..ProbeSpan }

---------------------------------------------------------------------------
(* Pure helpers *)

Min(a, b) == IF a < b THEN a ELSE b
Max(a, b) == IF a > b THEN a ELSE b

\* the k-th deviate (k from 0) of the generator's stream
Z(k) == zs[(k % Period) + 1]

\* np.random.normal(loc, scale) given the standard deviate z
Normal(loc, scale, z) == loc + scale * z

\* line 54, without its noise term
HLMean(gv, ct, csvc, nv, hp) == (3 * gv + 3 * ct + 2 * csvc + nv + hp) \div 10

TTMeanUnweighted(hl) == hl
\* line 57, without its noise term
TTMean(hl) == (8 * hl) \div 10

\* lines 46-67: the factors dict from seven consecutive deviates starting at k
Latents(k) ==
    LET f_CSVC == Normal(mu_CSVC, sd_CSVC, Z(k))
        f_GV   == Normal(mu_GV, sd_GV, Z(k + 1))
        f_CT   == Normal(mu_CT, sd_CT, Z(k + 2))
        f_NV   == Normal(mu_NV, sd_NV, Z(k + 3))
        f_HP   == Normal(mu_HP, sd_HP, Z(k + 4))
        f_HL   == HLMean(f_GV, f_CT, f_CSVC, f_NV, f_HP) + Normal(0, sd_HL, Z(k + 5))
        f_TT   == TTMean(f_HL) + Normal(0, sd_TT, Z(k + 6))
    IN  [c \in Codes |->
            CASE c = "CSVC" -> f_CSVC
              [] c = "GV"   -> f_GV
              [] c = "CT"   -> f_CT
              [] c = "NV"   -> f_NV
              [] c = "HP"   -> f_HP
              [] c = "HL"   -> f_HL
              [] c = "TT"   -> f_TT]

BaseValFirst(f, code) == f["CSVC"]
\* line 71
BaseVal(f, code) == f[code]

RoundHalfUp(v) == (2 * v + Scale) \div (2 * Scale)
\* line 77: Python 3 round() of a float: nearest integer, ties to even
Round(v) ==
    LET q == v \div Scale
        r == v % Scale
    IN  IF 2 * r < Scale THEN q
        ELSE IF 2 * r > Scale THEN q + 1
        ELSE IF q % 2 = 0 THEN q ELSE q + 1

ClampLowOnly(n) == Max(SCALE_MIN, n)
\* line 78
Clamp(n) == Max(SCALE_MIN, Min(SCALE_MAX, n))

LoopHeadInclusive(n) == IF n <= NUM_RESPONDENTS THEN "factors" ELSE "open"
\* line 41: the loop test after n completed iterations
LoopHead(n) == IF n < NUM_RESPONDENTS THEN "factors" ELSE "open"

Digits == <<"0", "1", "2", "3", "4", "5", "6", "7", "8", "9">>

\* str(n) of an int, as csv.writer formats a non-string field
RECURSIVE Str(_)
Str(n) ==
    IF n < 0 THEN "-" \o Str(-n)
    ELSE IF n < 10 THEN Digits[n + 1]
    ELSE Str(n \div 10) \o Digits[(n % 10) + 1]

RECURSIVE Join(_)
Join(fields) ==
    IF Len(fields) = 0 THEN ""
    ELSE IF Len(fields) = 1 THEN fields[1]
    ELSE fields[1] \o "," \o Join(Tail(fields))

\* writer.writerow of string fields: comma-joined, terminated by \r\n
CsvLine(fields) == Join(fields) \o "\r\n"

\* writer.writerow of a row of ints
CsvRow(r) == CsvLine([k \in 1..Len(r) |-> Str(r[k])])

\* the line printed on line 89
Message == [file |-> "sample_data_large.csv", rows |-> MsgRows, cols |-> MsgCols]

---------------------------------------------------------------------------
(* Initial state: the process has started, nothing has run *)

Fresh ==
    /\ header = <<>>
    /\ data = <<>>
    /\ row = <<>>
    /\ i = 0
    /\ ci = 1
    /\ ii = 1
    /\ factors = [c \in Codes |-> 0]
    /\ val = 0
    /\ raw = 0
    /\ drawn = 0
    /\ fh = "unopened"
    /\ exc = FALSE
    /\ opens = 0
    /\ stdout = <<>>
    /\ pc = "header"

Init ==
    /\ NUM_RESPONDENTS \in 0..MaxRespondents
    /\ zs \in [1..Period -> ZVals]
    /\ Fresh
    /\ disk = <<>>
    /\ run = 1
    /\ prevOk = FALSE
    /\ prevDisk = <<>>

---------------------------------------------------------------------------
(* Generation: lines 23-81 *)

ExtendFront(h, items) == items \o h
\* line 25: list.extend
Extend(h, items) == h \o items

\* lines 24-25, one iteration
ExtendHeader ==
    /\ pc = "header"
    /\ header' = Extend(header, constructs[ci].items)
    /\ IF ci < Len(constructs)
         THEN /\ ci' = ci + 1
              /\ pc' = "header"
         ELSE /\ ci' = 1
              /\ pc' = LoopHead(0)
    /\ UNCHANGED <<data, row, i, ii, factors, val, raw, drawn>>
    /\ UNCHANGED <<ioVars, envVars>>

\* lines 42-67
DrawFactors ==
    /\ pc = "factors"
    /\ row' = <<>>
    /\ factors' = Latents(drawn)
    /\ drawn' = drawn + 7
    /\ ci' = 1
    /\ ii' = 1
    /\ pc' = "item"
    /\ UNCHANGED <<header, data, i, val, raw>>
    /\ UNCHANGED <<ioVars, envVars>>

\* lines 71-74
DrawItem ==
    /\ pc = "item"
    /\ val' = BaseVal(factors, constructs[ci].code) + Normal(0, sd_item, Z(drawn))
    /\ raw' = val'
    /\ drawn' = drawn + 1
    /\ pc' = "round"
    /\ UNCHANGED <<header, data, row, i, ci, ii, factors>>
    /\ UNCHANGED <<ioVars, envVars>>

\* line 77
RoundVal ==
    /\ pc = "round"
    /\ val' = Round(val)
    /\ pc' = "clamp"
    /\ UNCHANGED <<header, data, row, i, ci, ii, factors, raw, drawn>>
    /\ UNCHANGED <<ioVars, envVars>>

\* lines 78-79, and the advance of the two loops of lines 70 and 72
ClampAppend ==
    /\ pc = "clamp"
    /\ val' = Clamp(val)
    /\ row' = Append(row, val')
    /\ IF ii < Len(constructs[ci].items)
         THEN /\ ii' = ii + 1
              /\ ci' = ci
              /\ pc' = "item"
         ELSE IF ci < Len(constructs)
         THEN /\ ii' = 1
              /\ ci' = ci + 1
              /\ pc' = "item"
         ELSE /\ ii' = 1
              /\ ci' = 1
              /\ pc' = "append"
    /\ UNCHANGED <<header, data, i, factors, raw, drawn>>
    /\ UNCHANGED <<ioVars, envVars>>

\* line 81 and the loop test of line 41
AppendRow ==
    /\ pc = "append"
    /\ data' = Append(data, row)
    /\ i' = i + 1
    /\ pc' = LoopHead(i + 1)
    /\ UNCHANGED <<header, row, ci, ii, factors, val, raw, drawn>>
    /\ UNCHANGED <<ioVars, envVars>>

---------------------------------------------------------------------------
(* Output: lines 84-89 *)

OpenedContentAppend(old) == old
\* line 84: mode 'w' truncates whatever the path held
OpenedContent(old) == <<>>

HandleLeftAsIs(h) == h
\* line 84: leaving the with block closes the file, exception or not
WithExit(h) == "closed"

AfterExitSwallowed(e) == "print"
\* an exception leaving the with block is unhandled and ends the process
AfterExit(e) == IF e THEN "failed" ELSE "print"

\* line 84, the open succeeds
OpenOk ==
    /\ pc = "open"
    /\ fh' = "open"
    /\ opens' = opens + 1
    /\ disk' = OpenedContent(disk)
    /\ pc' = "write_header"
    /\ UNCHANGED <<exc, stdout>>
    /\ UNCHANGED <<genVars, envVars>>

\* line 84, the open raises (directory missing, permission denied)
OpenFail ==
    /\ pc = "open"
    /\ exc' = TRUE
    /\ pc' = "failed"
    /\ UNCHANGED <<fh, disk, opens, stdout>>
    /\ UNCHANGED <<genVars, envVars>>

\* line 86
WriteHeaderOk ==
    /\ pc = "write_header"
    /\ disk' = Append(disk, CsvLine(header))
    /\ pc' = "write_rows"
    /\ UNCHANGED <<fh, exc, opens, stdout>>
    /\ UNCHANGED <<genVars, envVars>>

\* line 86 raises
WriteHeaderFail ==
    /\ pc = "write_header"
    /\ exc' = TRUE
    /\ pc' = "exit_with"
    /\ UNCHANGED <<fh, disk, opens, stdout>>
    /\ UNCHANGED <<genVars, envVars>>

\* line 87
WriteRowsOk ==
    /\ pc = "write_rows"
    /\ disk' = disk \o [k \in 1..Len(data) |-> CsvRow(data[k])]
    /\ pc' = "exit_with"
    /\ UNCHANGED <<fh, exc, opens, stdout>>
    /\ UNCHANGED <<genVars, envVars>>

\* line 87 raises after n of the rows went out
WriteRowsFail ==
    /\ pc = "write_rows"
    /\ \E n \in 0..(Len(data) - 1) :
          disk' = disk \o [k \in 1..n |-> CsvRow(data[k])]
    /\ exc' = TRUE
    /\ pc' = "exit_with"
    /\ UNCHANGED <<fh, opens, stdout>>
    /\ UNCHANGED <<genVars, envVars>>

\* the end of the with block of line 84, reached normally or by an exception
ExitWith ==
    /\ pc = "exit_with"
    /\ fh' = WithExit(fh)
    /\ pc' = AfterExit(exc)
    /\ UNCHANGED <<disk, exc, opens, stdout>>
    /\ UNCHANGED <<genVars, envVars>>

\* line 89
PrintConfirmation ==
    /\ pc = "print"
    /\ stdout' = Append(stdout, Message)
    /\ pc' = "done"
    /\ UNCHANGED <<fh, disk, exc, opens>>
    /\ UNCHANGED <<genVars, envVars>>

\* the script is run again: same configuration, same seed, the disk as left
Rerun ==
    /\ pc \in {"done", "failed"}
    /\ run < MaxRuns
    /\ run' = run + 1
    /\ prevOk' = (prevOk \/ pc = "done")
    /\ prevDisk' = IF pc = "done" THEN disk ELSE prevDisk
    /\ header' = <<>>
    /\ data' = <<>>
    /\ row' = <<>>
    /\ i' = 0
    /\ ci' = 1
    /\ ii' = 1
    /\ factors' = [c \in Codes |-> 0]
    /\ val' = 0
    /\ raw' = 0
    /\ drawn' = 0
    /\ fh' = "unopened"
    /\ exc' = FALSE
    /\ opens' = 0
    /\ stdout' = <<>>
    /\ pc' = "header"
    /\ UNCHANGED <<NUM_RESPONDENTS, zs, disk>>

Next ==
    \/ ExtendHeader
    \/ DrawFactors
    \/ DrawItem
    \/ RoundVal
    \/ ClampAppend
    \/ AppendRow
    \/ OpenOk
    \/ OpenFail
    \/ WriteHeaderOk
    \/ WriteHeaderFail
    \/ WriteRowsOk
    \/ WriteRowsFail
    \/ ExitWith
    \/ PrintConfirmation
    \/ Rerun

Spec == Init /\ [][Next]_vars

---------------------------------------------------------------------------
(* Scoring alone: one item of one respondent, its unrounded value drawn     *)
(* from a grid of quarters that covers every tie and both sides of the     *)
(* scale.                                                                  *)

RECURSIVE FlatItems(_)
\* lines 23-25 run to completion
FlatItems(k) ==
    IF k = 0 THEN <<>> ELSE Extend(FlatItems(k - 1), constructs[k].items)

InitScore ==
    /\ NUM_RESPONDENTS = 1
    /\ zs = [k \in 1..Period |-> 0]
    /\ val \in ProbeVals
    /\ raw = val
    /\ factors = [c \in Codes |-> val]
    /\ header = FlatItems(Len(constructs))
    /\ data = <<>>
    /\ row = <<>>
    /\ i = 0
    /\ ci = 1
    /\ ii = 1
    /\ drawn = 8
    /\ fh = "unopened"
    /\ exc = FALSE
    /\ opens = 0
    /\ stdout = <<>>
    /\ disk = <<>>
    /\ run = 1
    /\ prevOk = FALSE
    /\ prevDisk = <<>>
    /\ pc = "round"

NextScore ==
    \/ RoundVal
    \/ ClampAppend

SpecScore == InitScore /\ [][NextScore]_vars

---------------------------------------------------------------------------
(* Properties *)

Abs(n) == IF n < 0 THEN -n ELSE n
Last(s) == s[Len(s)]

\* the complete dataset: the header line, then one line per row of data
Dataset == <<CsvLine(header)>> \o [k \in 1..Len(data) |-> CsvRow(data[k])]

\* C1: every item score stored in the row under construction or in a row
\* already appended is an integer of SCALE_MIN..SCALE_MAX, whatever the
\* deviates of the stream are.
C1_ScoresInScale ==
    /\ \A k \in 1..Len(row) : row[k] \in SCALE_MIN..SCALE_MAX
    /\ \A r \in 1..Len(data) :
          \A k \in 1..Len(data[r]) : data[r][k] \in SCALE_MIN..SCALE_MAX

\* a row was appended whose last item was drawn more than one unit above the
\* scale and is stored as SCALE_MAX
C1_Witness ==
    /\ pc = "open"
    /\ Len(data) > 0
    /\ raw > (SCALE_MAX + 1) * Scale
    /\ Last(Last(data)) = SCALE_MAX

\* C2: when the run has completed successfully the file holds exactly one
\* header line followed by exactly NUM_RESPONDENTS data lines, one per
\* iteration of the generation loop.
C2_RowCount ==
    pc = "done" =>
        /\ Len(data) = NUM_RESPONDENTS
        /\ Len(disk) = NUM_RESPONDENTS + 1
        /\ disk[1] = CsvLine(header)
        /\ \A k \in 2..Len(disk) : disk[k] = CsvRow(data[k - 1])

C2_Witness ==
    /\ pc = "done"
    /\ NUM_RESPONDENTS = MaxRespondents
    /\ Len(disk) = MaxRespondents + 1

DeclaredHeader ==
    << "CSVC1", "CSVC2", "CSVC3", "CSVC4",
       "GV1", "GV2", "GV3", "GV4",
       "CT1", "CT2", "CT3", "CT4",
       "NV1", "NV2", "NV3", "NV4",
       "HP1", "HP2", "HP3", "HP4",
       "HL1", "HL2", "HL3", "HL4",
       "TT1", "TT2", "TT3", "TT4" >>

DeclaredHeaderText ==
    "CSVC1,CSVC2,CSVC3,CSVC4,GV1,GV2,GV3,GV4,CT1,CT2,CT3,CT4,NV1,NV2,NV3,NV4,HP1,HP2,HP3,HP4,HL1,HL2,HL3,HL4,TT1,TT2,TT3,TT4\r\n"

\* C3: once built, the header has exactly 28 entries, the item lists of
\* CSVC, GV, CT, NV, HP, HL, TT in that order, each in its declared order;
\* the header line written to the file is that list.
C3_HeaderOrder ==
    /\ pc # "header" =>
          /\ Len(header) = 28
          /\ header = DeclaredHeader
    /\ (pc \in {"write_rows", "print", "done"} => disk[1] = DeclaredHeaderText)

C3_Witness ==
    /\ pc = "write_rows"
    /\ Len(header) = 28
    /\ Len(disk) = 1

\* the construct each item belongs to, from the declaration of lines 13-21
Owner ==
    [item \in { DeclaredHeader[k] : k \in 1..Len(DeclaredHeader) } |->
        CHOOSE c \in Codes :
            \E k \in 1..Len(constructs) :
                /\ constructs[k].code = c
                /\ \E n \in 1..Len(constructs[k].items) :
                      constructs[k].items[n] = item]

\* deviates one respondent consumes: seven latent draws and one per column
DrawsPerRespondent == 7 + Len(DeclaredHeader)

\* the latent values of respondent r (from 1), written out from lines 46-57,
\* from the respondent's first seven deviates
LatentsOf(r) ==
    LET first == DrawsPerRespondent * (r - 1)
        csvc == mu_CSVC + sd_CSVC * Z(first)
        gv == mu_GV + sd_GV * Z(first + 1)
        ct == mu_CT + sd_CT * Z(first + 2)
        nv == mu_NV + sd_NV * Z(first + 3)
        hp == mu_HP + sd_HP * Z(first + 4)
        hl == (3 * gv + 3 * ct + 2 * csvc + nv + hp) \div 10 + sd_HL * Z(first + 5)
        tt == (8 * hl) \div 10 + sd_TT * Z(first + 6)
    IN  [c \in Codes |->
            CASE c = "CSVC" -> csvc
              [] c = "GV" -> gv
              [] c = "CT" -> ct
              [] c = "NV" -> nv
              [] c = "HP" -> hp
              [] c = "HL" -> hl
              [] c = "TT" -> tt]

\* the scores of respondent r, column by column: for the item the header
\* names at column k, the latent value of the item's construct plus the
\* item's own noise deviate, rounded and clamped
ScoresFor(r) ==
    LET latent == LatentsOf(r)
        first == DrawsPerRespondent * (r - 1) + 7
    IN  [k \in 1..Len(header) |->
            Clamp(Round(latent[Owner[header[k]]] + sd_item * Z(first + (k - 1))))]

\* C4: every appended row has exactly 28 integer fields, as many as the
\* header, and the field at column k is the score generated for the item
\* that header[k] names, from the latent value of that item's construct;
\* the lines written keep that order.
C4_ColumnsMatchHeader ==
    /\ \A r \in 1..Len(data) :
          /\ Len(data[r]) = 28
          /\ Len(data[r]) = Len(header)
          /\ \A k \in 1..Len(data[r]) : data[r][k] \in Int
          /\ data[r] = ScoresFor(r)
    /\ pc = "done" =>
          \A r \in 1..Len(data) : disk[r + 1] = CsvRow(ScoresFor(r))

\* a completed run whose first row holds different scores in different columns
C4_Witness ==
    /\ pc = "done"
    /\ Len(data) >= 1
    /\ \E k \in 1..28 : \E n \in 1..28 : data[1][k] # data[1][n]

\* C5: the file is opened at most once per run; when the process has ended
\* after a successful open the file is closed, on the success path and on
\* both failure paths; the file's content changes only while it is open.
C5_FileReleased ==
    /\ [](opens <= 1)
    /\ []((pc \in {"done", "failed", "print"} /\ opens = 1) => fh = "closed")
    /\ []((pc \in {"done", "failed"} /\ opens = 0) => fh = "unopened")
    /\ [][disk' # disk => (fh # "closed" /\ fh' = "open")]_vars

\* the process ended by an exception raised while writing, and the file is closed
C5_Witness ==
    /\ pc = "failed"
    /\ opens = 1
    /\ exc
    /\ fh = "closed"

\* C6: after an output error nothing is retried, the file is left as it was
\* when the error was raised, nothing is printed and the process ends as
\* failed; the confirmation line is printed only when the header and all
\* data rows are in the file.
C6_FailureIsFinal ==
    /\ [](exc => stdout = <<>>)
    /\ [](pc = "failed" => exc)
    /\ [](pc = "done" => ~exc)
    /\ []((exc /\ pc # "failed") => pc = "exit_with")
    /\ [][(exc /\ run' = run) =>
            /\ disk' = disk
            /\ opens' = opens
            /\ stdout' = stdout
            /\ exc'
            /\ pc' = "failed"]_vars
    /\ [](stdout # <<>> => (Len(data) = NUM_RESPONDENTS /\ disk = Dataset))

\* a run that failed while writing the rows and left the header and one of
\* two rows behind
C6_Witness ==
    /\ pc = "failed"
    /\ opens = 1
    /\ NUM_RESPONDENTS = 2
    /\ Len(disk) = 2
    /\ stdout = <<>>

\* C7: on success exactly one confirmation line is printed and the row and
\* column counts it states are those of the file written.
C7_MessageCounts ==
    pc = "done" =>
        /\ Len(stdout) = 1
        /\ stdout[1].rows = Len(disk) - 1
        /\ stdout[1].cols = Len(header)

Mocked == \A k \in 1..Period : zs[k] = 0

\* C9: one respondent, every deviate zero (each independent draw returns its
\* mean, each noise draw 0): the latent values are 3.5, 4.0, 3.8, 3.2, 3.0,
\* 3.66 for HL and 2.928 for TT, and the row holds 4, 4, 4, 3, 3, 4, 3, each
\* four times.
C9_MockedRow ==
    (NUM_RESPONDENTS = 1 /\ Mocked /\ Len(data) = 1) =>
        /\ factors = [c \in Codes |->
                        CASE c = "CSVC" -> 35000
                          [] c = "GV"   -> 40000
                          [] c = "CT"   -> 38000
                          [] c = "NV"   -> 32000
                          [] c = "HP"   -> 30000
                          [] c = "HL"   -> 36600
                          [] c = "TT"   -> 29280]
        /\ data[1] = << 4, 4, 4, 4,  4, 4, 4, 4,  4, 4, 4, 4,  3, 3, 3, 3,
                        3, 3, 3, 3,  4, 4, 4, 4,  3, 3, 3, 3 >>
        /\ pc = "done" =>
              disk[2] = "4,4,4,4,4,4,4,4,4,4,4,4,3,3,3,3,3,3,3,3,4,4,4,4,3,3,3,3\r\n"

C9_Witness ==
    /\ pc = "done"
    /\ NUM_RESPONDENTS = 1
    /\ Mocked
    /\ Len(disk) = 2

\* n is an integer nearest to v (v in units of 1/Scale)
Nearest(v, n) == 2 * Abs(v - n * Scale) <= Scale
Tie(v, n) == 2 * Abs(v - n * Scale) = Scale

NearestTiesUp(v, n) == Nearest(v, n) /\ (Tie(v, n) => n * Scale > v)
NearestTiesEven(v, n) == Nearest(v, n) /\ (Tie(v, n) => n % 2 = 0)

\* s is n brought into the scale
Clamped(n, s) ==
    /\ s \in SCALE_MIN..SCALE_MAX
    /\ (n \in SCALE_MIN..SCALE_MAX => s = n)
    /\ (n < SCALE_MIN => s = SCALE_MIN)
    /\ (n > SCALE_MAX => s = SCALE_MAX)

Candidates(v) == ((v \div Scale) - 1)..((v \div Scale) + 1)

\* the item drawn last has been scored and stored
Stored == Len(row) > 0 /\ pc \notin {"round", "clamp"}

\* C10 as stated: the stored score is the unrounded value rounded to the
\* nearest integer, a value exactly halfway going to the higher integer, and
\* then clamped into the scale.
C10_RoundHalfUpThenClamp ==
    /\ pc = "clamp" => NearestTiesUp(raw, val)
    /\ Stored => \E n \in Candidates(raw) :
                     NearestTiesUp(raw, n) /\ Clamped(n, Last(row))

\* C10 amended: the stored score is the unrounded value rounded to the
\* nearest integer, a value exactly halfway going to the even integer, and
\* then clamped into the scale.
C10_RoundHalfEvenThenClamp ==
    /\ pc = "clamp" => NearestTiesEven(raw, val)
    /\ Stored => \E n \in Candidates(raw) :
                     NearestTiesEven(raw, n) /\ Clamped(n, Last(row))

\* 2.5 was scored and stored as 2
C10_Witness ==
    /\ Stored
    /\ raw = 2 * Scale + Scale \div 2
    /\ Last(row) = 2

====
